---------------------------- MODULE Spec2Model ----------------------------
(***************************************************************************)
(* Stampede: synthesis of random expression trees (Node::new), animation   *)
(* of their constants (Constant::animate) and compilation to an            *)
(* instruction buffer and a constant pool (InstructionEncoder).            *)
(*                                                                         *)
(* Numbers.  The program's f32 values are modelled in fixed point: one     *)
(* unit of the model is 1/FP, so the bound 0.8 is (8 * FP) \div 10.  A     *)
(* draw of gen_range(low, high) is an integer v with low <= v < high in    *)
(* the same units.  Rates of the weighted tables are in hundredths.  The   *)
(* draw of Node::new, u in [0, 1), is k / INSTRUCTION_COUNT for an integer *)
(* k in 0 .. INSTRUCTION_COUNT - 1.                                        *)
(***************************************************************************)
EXTENDS Integers, Sequences, FiniteSets, TLC

VARIABLES
    pc,        \* "synth": Tree::new is running; "ready": the tree exists; "encode": a
               \* compile is running; "aborted": a panic ended the program
    layers,    \* Tree.layers: the channels synthesized so far, in order
    count,     \* the node counter (*count) of the channel under synthesis
    stack,     \* the operators of the running Node::new calls, innermost last
    ticks,     \* number of Tree::animate calls made
    redraws,   \* number of RedrawRequested handlers completed
    bufs,      \* per channel, the buffers last returned by encode_upload_buffer
    enc,       \* the InstructionEncoder of the running compile, if any
    work,      \* the running push calls of that compile, outermost first
    chan,      \* the channel (offset) of that compile
    decl,      \* the catalog declaration of the Constant under study
    konst0,    \* that Constant as Constant::new returned it
    konst,     \* that Constant now
    pending,   \* Node::new calls still to be made for the channel (counting view)
    ncombs,    \* nodes with children created for the channel so far (counting view)
    nconsts,   \* Constants created for the channel so far (counting view)
    draw       \* where a specification records them: the draws of the Node::new calls
               \* (of the latest call, or of every call so far, in order)

vars == <<pc, layers, count, stack, ticks, redraws, bufs, enc, work, chan, decl, konst0,
          konst, pending, ncombs, nconsts, draw>>

---------------------------------------------------------------------------
(* Program constants *)

INSTRUCTION_COUNT == 128

CONSTANT_POOL_SIZE == 1024

RATE_SCALE == 500

(* Bounds of the model *)

\* Units of the fixed-point model per 1.0.
FP == 1000

\* Largest tree synthesized when a few opcodes are drawn (Spec).
MaxNodes == 4

\* Largest tree synthesized when every opcode is drawn (SpecWide, SpecMain).
MaxWide == 3

\* Largest number of Tree::animate calls and of redraws explored.
MaxTicks == 2

\* Largest id a weighted draw is taken to return where its table is left open
\* (SpecDispatch).
MaxId == 20

---------------------------------------------------------------------------
(* The operator catalog *)

Tenths(n) == (n * FP) \div 10

PI == (31416 * FP) \div 10000

K(lo, hi, mode) == [min |-> lo, max |-> hi, mode |-> mode]

XY == << K(Tenths(-10), Tenths(10), "m"), K(Tenths(-8), Tenths(8), "m") >>

Catalog ==
    (1 :> [consts |-> << K(Tenths(-10), Tenths(10), "m") >>, children |-> 0]) @@
    (2 :> [consts |-> XY \o XY \o << K(Tenths(1), Tenths(10), "m"),
                                      K(Tenths(10), Tenths(1000), "m") >>, children |-> 0]) @@
    (3 :> [consts |-> XY \o << K(0, 2 * PI, "r"), K(0, Tenths(25), "m"),
                               K(0, Tenths(10), "m"), K(Tenths(30), Tenths(250), "f"),
                               K(Tenths(20), Tenths(100), "m") >>, children |-> 0]) @@
    (4 :> [consts |-> XY \o XY \o << K(Tenths(20), Tenths(200), "m") >>, children |-> 0]) @@
    (5 :> [consts |-> XY \o XY \o << K(0, 2 * PI, "r") >>, children |-> 0]) @@
    (6 :> [consts |-> XY \o << K(0, 2 * PI, "r") >>, children |-> 0]) @@
    (8 :> [consts |-> << >>, children |-> 1]) @@
    (9 :> [consts |-> << >>, children |-> 1]) @@
    (10 :> [consts |-> << >>, children |-> 2]) @@
    (11 :> [consts |-> << >>, children |-> 2]) @@
    (12 :> [consts |-> << >>, children |-> 2]) @@
    (13 :> [consts |-> << >>, children |-> 2]) @@
    (14 :> [consts |-> << >>, children |-> 2]) @@
    (15 :> [consts |-> << >>, children |-> 2]) @@
    (16 :> [consts |-> << K(-PI, PI, "r"), K(-PI, PI, "r") >>, children |-> 1]) @@
    (17 :> [consts |-> << K(-PI, PI, "r"), K(-PI, PI, "r") >>, children |-> 1]) @@
    (18 :> [consts |-> XY \o << K(0, Tenths(100), "m"), K(Tenths(-10), Tenths(10), "m") >>,
            children |-> 1]) @@
    (19 :> [consts |-> XY \o << K(0, Tenths(20), "m"), K(0, Tenths(40), "m") >>,
            children |-> 2])

OpIds == DOMAIN Catalog

\* Every (min, max, wrap mode) declaration of the catalog.
CatalogConsts == UNION { { Catalog[op].consts[j] : j \in DOMAIN Catalog[op].consts } : op \in OpIds }

---------------------------------------------------------------------------
(* Constant *)

from_name(name) ==
    CASE name = "m" -> "Mirror"
      [] name = "r" -> "Repeat"
      [] name = "f" -> "Repeat"

\* The rates gen_range(min / RATE_SCALE, max / RATE_SCALE) can return.
RateLo(d) == -((-d.min) \div RATE_SCALE)

RateHi(d) == -((-d.max) \div RATE_SCALE) - 1

RateRange(d) == RateLo(d) .. RateHi(d)

\* The values gen_range(min, max) can return.
ValueRange(d) == d.min .. (d.max - 1)

ConstantNewFreeRate(d, rateDraw, valueDraw) ==
    [limits |-> << d.min, d.max >>,
     value |-> valueDraw,
     rate |-> rateDraw,
     wrap_mode |-> from_name(d.mode)]

ConstantNew(d, rateDraw, valueDraw) ==
    [limits |-> << d.min, d.max >>,
     value |-> valueDraw,
     rate |-> IF d.mode # "f" THEN rateDraw ELSE 0,
     wrap_mode |-> from_name(d.mode)]

WrapBelowKeepRate(c) ==
    IF c.value < c.limits[1]
    THEN IF c.wrap_mode = "Repeat"
         THEN [c EXCEPT !.value = c.value + (c.limits[2] - c.limits[1])]
         ELSE [c EXCEPT !.value = c.limits[1] + (c.limits[1] - c.value)]
    ELSE c

WrapBelow(c) ==
    IF c.value < c.limits[1]
    THEN IF c.wrap_mode = "Repeat"
         THEN [c EXCEPT !.value = c.value + (c.limits[2] - c.limits[1])]
         ELSE [c EXCEPT !.value = c.limits[1] + (c.limits[1] - c.value), !.rate = -c.rate]
    ELSE c

WrapAboveClamp(c) ==
    IF c.value > c.limits[2]
    THEN IF c.wrap_mode = "Repeat"
         THEN [c EXCEPT !.value = c.value - (c.limits[2] - c.limits[1])]
         ELSE [c EXCEPT !.value = c.limits[2], !.rate = -c.rate]
    ELSE c

WrapAboveRestart(c) ==
    IF c.value > c.limits[2]
    THEN IF c.wrap_mode = "Repeat"
         THEN [c EXCEPT !.value = c.limits[1]]
         ELSE [c EXCEPT !.value = c.limits[2] - (c.value - c.limits[2]), !.rate = -c.rate]
    ELSE c

WrapAboveNoRepeat(c) ==
    IF c.value > c.limits[2] /\ c.wrap_mode = "Mirror"
    THEN [c EXCEPT !.value = c.limits[2] - (c.value - c.limits[2]), !.rate = -c.rate]
    ELSE c

WrapAbove(c) ==
    IF c.value > c.limits[2]
    THEN IF c.wrap_mode = "Repeat"
         THEN [c EXCEPT !.value = c.value - (c.limits[2] - c.limits[1])]
         ELSE [c EXCEPT !.value = c.limits[2] - (c.value - c.limits[2]), !.rate = -c.rate]
    ELSE c

ConstantAnimate(c) == WrapAbove(WrapBelow([c EXCEPT !.value = c.value + c.rate]))

---------------------------------------------------------------------------
NoBufs == [ch \in 0 .. 2 |-> << >>]

NoDraw == << >>

(* The life of one Constant: Constant::new, then any number of animate()   *)

Idle ==
    /\ pc = "ready"
    /\ layers = << >>
    /\ count = 0
    /\ stack = << >>
    /\ ticks = 0
    /\ redraws = 0
    /\ bufs = NoBufs
    /\ enc = << >>
    /\ work = << >>
    /\ chan = 0
    /\ pending = 0
    /\ ncombs = 0
    /\ nconsts = 0
    /\ draw = NoDraw

NoConst == [limits |-> << 0, 0 >>, value |-> 0, rate |-> 0, wrap_mode |-> "Repeat"]

NoDecl == K(0, 0, "f")

\* The draws explored for one Constant: the ends of each range, and its middle.
RateDraws(d) == { RateLo(d), RateHi(d), (RateLo(d) + RateHi(d)) \div 2 }

ValueDraws(d) == { d.min, d.max - 1, (d.min + d.max) \div 2 }

InitConst ==
    /\ Idle
    /\ decl \in CatalogConsts
    /\ \E r \in RateDraws(decl), v \in ValueDraws(decl) :
          konst0 = ConstantNew(decl, r, v)
    /\ konst = konst0

AnimateConst ==
    /\ konst' = ConstantAnimate(konst)
    /\ UNCHANGED <<pc, layers, count, stack, ticks, redraws, bufs, enc, work, chan, decl,
                   konst0, pending, ncombs, nconsts, draw>>

SpecConst == InitConst /\ [][AnimateConst]_vars

---------------------------------------------------------------------------
(* Weighted tables and the guided walk *)

Rate(r, op) == [rate |-> r, op |-> op]

LEAF_RATES ==
    << Rate(1, 1), Rate(200, 2), Rate(400, 3), Rate(100, 4), Rate(200, 5), Rate(200, 6) >>

OP_RATES ==
    << Rate(20, 8), Rate(10, 9), Rate(30, 10), Rate(30, 11), Rate(30, 12), Rate(30, 13),
       Rate(50, 14), Rate(50, 15), Rate(0, 16), Rate(0, 17), Rate(20, 18), Rate(200, 19) >>

RECURSIVE SumRates(_, _)
SumRates(rates, n) == IF n = 0 THEN 0 ELSE SumRates(rates, n - 1) + rates[n].rate

LEAF_RATE_TOTAL == SumRates(LEAF_RATES, Len(LEAF_RATES))

OP_RATE_TOTAL == SumRates(OP_RATES, Len(OP_RATES))

\* A panic (an index out of range, a panic! arm) in place of an opcode id.
Panicked == 0 - 1

\* The loop of guided_random_walk: i entries consumed (rates[i] of the code is
\* rates[i + 1] here), acc their sum.  Panicked is the out-of-range index.
RECURSIVE WalkLoop(_, _, _, _)
RECURSIVE WalkLoopStrict(_, _, _, _)
RECURSIVE WalkLoopNoStepBack(_, _, _, _)

WalkLoopStrict(rates, f, i, acc) ==
    IF acc < f
    THEN IF i + 1 > Len(rates) THEN Panicked
         ELSE WalkLoopStrict(rates, f, i + 1, acc + rates[i + 1].rate)
    ELSE IF i - 1 < 0 \/ i - 1 >= Len(rates) THEN Panicked ELSE rates[(i - 1) + 1].op

WalkLoopNoStepBack(rates, f, i, acc) ==
    IF acc <= f
    THEN IF i + 1 > Len(rates) THEN Panicked
         ELSE WalkLoopNoStepBack(rates, f, i + 1, acc + rates[i + 1].rate)
    ELSE IF i < 0 \/ i >= Len(rates) THEN Panicked ELSE rates[i + 1].op

WalkLoop(rates, f, i, acc) ==
    IF acc <= f
    THEN IF i + 1 > Len(rates) THEN Panicked
         ELSE WalkLoop(rates, f, i + 1, acc + rates[i + 1].rate)
    ELSE IF i - 1 < 0 \/ i - 1 >= Len(rates) THEN Panicked ELSE rates[(i - 1) + 1].op

guided_random_walk(rates, f) == WalkLoop(rates, f, 0, 0)

---------------------------------------------------------------------------
(* Node::new *)

\* rng.gen_range(0f32, 1f32) < fullness, with the draw k / INSTRUCTION_COUNT
\* and fullness = (count * 2) / INSTRUCTION_COUNT.
LeafDrawNoDouble(cnt, k) == k < cnt

LeafDrawLate(cnt, k) == k < cnt * 2 - 2

LeafDrawInclusive(cnt, k) == k <= cnt * 2

LeafDraw(cnt, k) == k < cnt * 2

LeafArms == 1 .. 6

OpArms == 8 .. 19

\* The opcode Node::new dispatches on for the draws k (of the fullness test)
\* and f (of the guided walk of the table chosen), or Panicked (a walk out of
\* range or an id without a match arm).
LeafMatchDefault(x) == IF x \in LeafArms THEN x ELSE 1

\* The opcode() of the operator each match arm builds: `2 =>
\* Self::Ellipse(EllipseOp::new(..))` with make_op!(EllipseOp [2] ..) is 2 :> 2.
ArmsEllipseBuildsFlower == [x \in (1 .. 6) \cup (8 .. 19) |-> IF x = 2 THEN 3 ELSE x]

Arms ==
    (1 :> 1) @@ (2 :> 2) @@ (3 :> 3) @@ (4 :> 4) @@ (5 :> 5) @@ (6 :> 6) @@
    (8 :> 8) @@ (9 :> 9) @@ (10 :> 10) @@ (11 :> 11) @@ (12 :> 12) @@ (13 :> 13) @@
    (14 :> 14) @@ (15 :> 15) @@ (16 :> 16) @@ (17 :> 17) @@ (18 :> 18) @@ (19 :> 19)

\* The two match statements: the opcode of the arm taken, or Panicked.
LeafMatch(x) == IF x \in LeafArms THEN Arms[x] ELSE Panicked

OpMatch(x) == IF x \in OpArms THEN Arms[x] ELSE Panicked

Dispatch(cnt, k, f) ==
    IF LeafDraw(cnt, k)
    THEN LeafMatch(guided_random_walk(LEAF_RATES, f))
    ELSE OpMatch(guided_random_walk(OP_RATES, f))

\* The draws explored: both sides of every interval end of the tables, and
\* both sides of the fullness of every count up to MaxNodes.
RECURSIVE Cumulative(_, _)
Cumulative(rates, n) ==
    IF n = 0 THEN {} ELSE Cumulative(rates, n - 1) \cup { SumRates(rates, n) }

WalkDraws(rates) ==
    LET total == SumRates(rates, Len(rates))
        ends == Cumulative(rates, Len(rates))
    IN  { f \in {0} \cup ends \cup { e - 1 : e \in ends } : 0 <= f /\ f < total }

UDraws == (0 .. (2 * MaxNodes + 1)) \cup { INSTRUCTION_COUNT - 1 }

UEnds == { 0, INSTRUCTION_COUNT - 1 }

\* The outcomes of one Node::new dispatch at counter cnt, for the draws k in U
\* and f in FL (leaf table) or FO (combinator table).
Outcomes(cnt, U, FL, FO) ==
    { Dispatch(cnt, k, f) : k \in { j \in U : LeafDraw(cnt, j) }, f \in FL }
    \cup
    { Dispatch(cnt, k, f) : k \in { j \in U : ~LeafDraw(cnt, j) }, f \in FO }

\* The walk draws whose opcode has the most constants among the opcodes of the
\* same table with as many children.
MostConstants(rates) ==
    LET D == WalkDraws(rates)
        opOf(f) == guided_random_walk(rates, f)
    IN  { f \in D : \A g \in D :
            Catalog[opOf(g)].children = Catalog[opOf(f)].children
                => Len(Catalog[opOf(g)].consts) <= Len(Catalog[opOf(f)].consts) }

LeafWalkDraws == WalkDraws(LEAF_RATES)

OpWalkDraws == WalkDraws(OP_RATES)

LeafMostConstants == MostConstants(LEAF_RATES)

OpMostConstants == MostConstants(OP_RATES)

---------------------------------------------------------------------------
(* Synthesis of one channel, counting view: the counter, the Node::new     *)
(* calls still to come, the combinators and the Constants created.  Every  *)
(* sequence of leaf, one-child and two-child nodes the draws allow is      *)
(* explored, each with the opcode of most constants.                       *)

InitCount ==
    /\ pc = "synth"
    /\ layers = << >>
    /\ count = 0
    /\ stack = << >>
    /\ ticks = 0
    /\ redraws = 0
    /\ bufs = NoBufs
    /\ enc = << >>
    /\ work = << >>
    /\ chan = 0
    /\ decl = NoDecl
    /\ konst0 = NoConst
    /\ konst = NoConst
    /\ pending = 1
    /\ ncombs = 0
    /\ nconsts = 0
    /\ draw = NoDraw

NodeNewCount ==
    /\ pc = "synth"
    /\ pending > 0
    /\ \E x \in Outcomes(count, UEnds, LeafMostConstants, OpMostConstants) :
          /\ count' = count + 1
          /\ IF x = Panicked
             THEN /\ pc' = "aborted"
                  /\ UNCHANGED <<pending, ncombs, nconsts>>
             ELSE /\ nconsts' = nconsts + Len(Catalog[x].consts)
                  /\ ncombs' = IF Catalog[x].children > 0 THEN ncombs + 1 ELSE ncombs
                  /\ pending' = pending - 1 + Catalog[x].children
                  /\ pc' = IF pending' = 0 THEN "ready" ELSE "synth"
    /\ UNCHANGED <<layers, stack, ticks, redraws, bufs, enc, work, chan, decl, konst0, konst, draw>>

SpecCount == InitCount /\ [][NodeNewCount]_vars

---------------------------------------------------------------------------
(* Synthesis of the channels, node by node.  One step is one call of       *)
(* Node::new up to its first recursive call (or its return): the counter   *)
(* is read and incremented, the opcode drawn, the operator's Constants     *)
(* created; a node whose children are all built returns into its parent.   *)

\* The draws of Constant::new for the j-th Constant of an operator: the
\* highest rate of its range and a value j units below its upper limit.
RateDraw(d, j) == RateHi(d)

ValueDraw(d, j) == d.max - j

\* make_op! new: the consts array, in declaration order.
NewConsts(x) ==
    [j \in 1 .. Len(Catalog[x].consts) |->
        ConstantNew(Catalog[x].consts[j], RateDraw(Catalog[x].consts[j], j),
                    ValueDraw(Catalog[x].consts[j], j))]

\* Node::new calls still to be made by the running calls, the one being made
\* included: every running operator but the innermost has one child under
\* construction.
\* Counted without recursion: the running call j owes its missing children
\* but the one under construction, and the innermost call is the one owed.
Outstanding(stk) ==
    1 + Cardinality(UNION {{j} \X (1 .. Catalog[stk[j].op].children - Len(stk[j].children) - 1)
                           : j \in DOMAIN stk})

\* node is complete: it becomes the next child of the innermost running
\* operator, which returns in turn once it has all its children.
RECURSIVE ReturnPrepend(_, _)

ReturnPrepend(stk, node) ==
    IF stk = << >> THEN [stack |-> << >>, root |-> << node >>]
    ELSE LET top == stk[Len(stk)]
             filled == [top EXCEPT !.children = << node >> \o top.children]
             rest == SubSeq(stk, 1, Len(stk) - 1)
         IN  IF Len(filled.children) = Catalog[top.op].children
             THEN ReturnPrepend(rest, filled)
             ELSE [stack |-> Append(rest, filled), root |-> << >>]

\* The running call returns once it is given one more child.
Returns(frame) == Len(frame.children) + 1 = Catalog[frame.op].children

\* The outermost of the running calls that return in a row: the call below
\* it (0 if none) is the innermost that stays running.
Staying(stk) ==
    LET open == {j \in DOMAIN stk : ~Returns(stk[j])}
    IN  IF open = {} THEN 0 ELSE CHOOSE j \in open : \A k \in open : k <= j

\* The running calls i .. j return in a row, node being the last child of
\* call j: the operator call i returns.  The row is halved so that the
\* nesting of the evaluation stays logarithmic in its length.
RECURSIVE Fill(_, _, _, _)
Fill(stk, i, j, node) ==
    IF i > j \/ Len(node.children) # Catalog[node.op].children THEN node
    ELSE IF i = j THEN [stk[i] EXCEPT !.children = Append(@, node)]
    ELSE Fill(stk, i, (i + j) \div 2, Fill(stk, (i + j) \div 2 + 1, j, node))

Return(stk, node) ==
    LET m == Staying(stk)
        built == Fill(stk, m + 1, Len(stk), node)
    IN  IF m = 0 THEN [stack |-> << >>, root |-> << built >>]
        ELSE [stack |-> Append(SubSeq(stk, 1, m - 1),
                               [stk[m] EXCEPT !.children = Append(@, built)]),
              root |-> << >>]

\* The counter the call reads: Tree::new passes a fresh &mut 0 per channel.
CounterCarried == count

Counter == IF stack = << >> THEN 0 ELSE count

\* The call once the match has given x: the operator's new, or the panic.
Construct(x, cap, nlayers) ==
    /\ count' = Counter + 1
    /\ IF x = Panicked
       THEN /\ pc' = "aborted"
            /\ UNCHANGED <<layers, stack>>
       ELSE LET n == Catalog[x].children
                node == [op |-> x, consts |-> NewConsts(x), children |-> << >>]
                others == Outstanding(stack) - 1
                r == Return(stack, node)
            IN  /\ Counter + 1 + others + n <= cap
                /\ IF n > 0
                   THEN /\ stack' = Append(stack, node)
                        /\ UNCHANGED <<layers, pc>>
                   ELSE /\ stack' = r.stack
                        /\ layers' = layers \o r.root
                        /\ pc' = IF Len(layers') = nlayers THEN "ready" ELSE "synth"
    /\ UNCHANGED <<ticks, redraws, bufs, enc, work, chan, decl, konst0, konst, pending, ncombs,
                   nconsts>>

NodeNew(U, FL, FO, cap, nlayers) ==
    /\ pc = "synth"
    /\ \E x \in Outcomes(Counter, U, FL, FO) : Construct(x, cap, nlayers)
    /\ UNCHANGED draw

---------------------------------------------------------------------------
(* InstructionEncoder *)

EncoderNew ==
    [instrs |-> [i \in 0 .. INSTRUCTION_COUNT - 1 |-> 0],
     instr_offset |-> 0,
     constant_pool |-> [i \in 0 .. CONSTANT_POOL_SIZE - 1 |-> 0],
     pool_offset |-> 0,
     ok |-> TRUE]

\* mem::size_of of the element types, in bytes.
SizeOf(type) ==
    CASE type = "u32" -> 4
      [] type = "f32" -> 4
      [] type = "u64" -> 8

\* mem::size_of::<[u64; INSTRUCTION_COUNT]>() and
\* mem::size_of::<[f32; CONSTANT_POOL_SIZE]>().
instruction_buffer_size == SizeOf("u64") * INSTRUCTION_COUNT

pool_buffer_size == SizeOf("f32") * CONSTANT_POOL_SIZE

\* The bytes of the upload buffers encode_upload_buffer fills from the
\* arrays of finish(): [u32; INSTRUCTION_COUNT] and [f32; CONSTANT_POOL_SIZE].
InstrUploadBytes(b) == SizeOf("u32") * Cardinality(DOMAIN b.instrs)

PoolUploadBytes(b) == SizeOf("f32") * Cardinality(DOMAIN b.consts)

\* a | b on non-negative integers.
RECURSIVE BitOr(_, _)
BitOr(a, b) ==
    IF a = 0 THEN b
    ELSE IF b = 0 THEN a
    ELSE (IF a % 2 = 1 \/ b % 2 = 1 THEN 1 ELSE 0) + 2 * BitOr(a \div 2, b \div 2)

\* The word of an operator.  The two counts are masked to 8 bits before they
\* are shifted and every opcode id of the catalog is below 2^8, so the casts
\* to u32 lose nothing.
OpBitsSwapped(opcode, nconsts_, nchildren) ==
    BitOr(BitOr((nconsts_ % 256) * 256, (nchildren % 256) * 65536), opcode)

OpBitsNoOpcode(opcode, nconsts_, nchildren) ==
    BitOr((nchildren % 256) * 256, (nconsts_ % 256) * 65536)

OpBits(opcode, nconsts_, nchildren) ==
    BitOr(BitOr((nconsts_ % 256) * 65536, (nchildren % 256) * 256), opcode)

\* self.instrs[self.instr_offset] = op_bits; self.instr_offset += 1.  ok = FALSE is
\* the panic of an index out of range: nothing after it executes.
WriteInstrWrapping(enc_, w) ==
    IF ~enc_.ok THEN enc_
    ELSE [enc_ EXCEPT !.instrs[enc_.instr_offset % INSTRUCTION_COUNT] = w,
                     !.instr_offset = enc_.instr_offset + 1]

WriteInstrLeafInPlace(enc_, w) ==
    IF ~enc_.ok THEN enc_
    ELSE IF enc_.instr_offset >= INSTRUCTION_COUNT THEN [enc_ EXCEPT !.ok = FALSE]
    ELSE [enc_ EXCEPT !.instrs[enc_.instr_offset] = w,
                     !.instr_offset = IF (w \div 256) % 256 = 0 /\ enc_.instr_offset > 0
                                      THEN enc_.instr_offset
                                      ELSE enc_.instr_offset + 1]

WriteInstr(enc_, w) ==
    IF ~enc_.ok THEN enc_
    ELSE IF enc_.instr_offset >= INSTRUCTION_COUNT THEN [enc_ EXCEPT !.ok = FALSE]
    ELSE [enc_ EXCEPT !.instrs[enc_.instr_offset] = w,
                     !.instr_offset = enc_.instr_offset + 1]

push_constantPreIncrement(enc_, value) ==
    IF ~enc_.ok THEN enc_
    ELSE IF enc_.pool_offset + 1 >= CONSTANT_POOL_SIZE THEN [enc_ EXCEPT !.ok = FALSE]
    ELSE [enc_ EXCEPT !.constant_pool[enc_.pool_offset + 1] = value,
                     !.pool_offset = enc_.pool_offset + 1]

push_constantTwoSlots(enc_, value) ==
    IF ~enc_.ok THEN enc_
    ELSE IF enc_.pool_offset >= CONSTANT_POOL_SIZE THEN [enc_ EXCEPT !.ok = FALSE]
    ELSE [enc_ EXCEPT !.constant_pool[enc_.pool_offset] = value,
                     !.pool_offset = enc_.pool_offset + 2]

push_constant(enc_, value) ==
    IF ~enc_.ok THEN enc_
    ELSE IF enc_.pool_offset >= CONSTANT_POOL_SIZE THEN [enc_ EXCEPT !.ok = FALSE]
    ELSE [enc_ EXCEPT !.constant_pool[enc_.pool_offset] = value,
                     !.pool_offset = enc_.pool_offset + 1]

\* for v in consts { self.push_constant(v.value()) }; a panic ends the loop.
RECURSIVE PushConstants(_, _, _)
RECURSIVE PushConstantsReversed(_, _, _)

PushConstantsReversed(enc_, consts, j) ==
    IF ~enc_.ok \/ j > Len(consts) THEN enc_
    ELSE PushConstantsReversed(push_constant(enc_, consts[Len(consts) + 1 - j].value), consts, j + 1)

PushConstants(enc_, consts, j) ==
    IF ~enc_.ok \/ j > Len(consts) THEN enc_
    ELSE PushConstants(push_constant(enc_, consts[j].value), consts, j + 1)

\* The word Op::push writes for the operator of node.
OpBitsOf(node) == OpBits(node.op, Len(node.consts), Len(node.children))

\* The running push calls, outermost first: the operator of each and the
\* child its loop `for child in children` encodes next.
FrameSkipFirst(node) == [node |-> node, next |-> 2]

Frame(node) == [node |-> node, next |-> 1]

\* The child the loop `for child in children` of the running push encodes
\* next.
NextChildReversed(frame) ==
    frame.node.children[Len(frame.node.children) + 1 - frame.next]

NextChild(frame) == frame.node.children[frame.next]

\* The rest of push once the children are encoded: the constants, the word.
PushOwn(enc_, node) == WriteInstr(PushConstants(enc_, node.consts, 1), OpBitsOf(node))

---------------------------------------------------------------------------
(* Tree *)

ConstsAnimateDropFixed(consts) ==
    LET Moving(c) == c.rate # 0
    IN  SelectSeq([j \in DOMAIN consts |-> ConstantAnimate(consts[j])], Moving)

ConstsAnimate(consts) == [j \in DOMAIN consts |-> ConstantAnimate(consts[j])]

\* make_op! animate through Node::animate: the children, then the constants.
RECURSIVE NodeAnimate(_)

NodeAnimateFirstChildOnly(node) ==
    [node EXCEPT !.children = [j \in DOMAIN node.children |->
                                  IF j = 1 THEN NodeAnimate(node.children[j])
                                  ELSE node.children[j]],
                 !.consts = ConstsAnimate(node.consts)]

NodeAnimate(node) ==
    [node EXCEPT !.children = [j \in DOMAIN node.children |-> NodeAnimate(node.children[j])],
                 !.consts = ConstsAnimate(node.consts)]

TreeAnimate ==
    /\ pc = "ready"
    /\ ticks < MaxTicks
    /\ layers' = [i \in DOMAIN layers |-> NodeAnimate(layers[i])]
    /\ ticks' = ticks + 1
    /\ UNCHANGED <<pc, count, stack, redraws, bufs, enc, work, chan, decl, konst0, konst,
                   pending, ncombs, nconsts, draw>>

\* let mut encoder = InstructionEncoder::new(); self.layers[offset].encode(&mut encoder)
\* is entered.
EncodeBeginAppend(offset) ==
    /\ enc' = IF bufs[offset] = << >> THEN << EncoderNew >>
              ELSE << [EncoderNew EXCEPT !.instrs = bufs[offset][1].instrs,
                                         !.instr_offset = bufs[offset][1].instr_offset] >>
    /\ work' = << Frame(layers[offset + 1]) >>
    /\ chan' = offset

EncodeBegin(offset) ==
    /\ enc' = << EncoderNew >>
    /\ work' = << Frame(layers[offset + 1]) >>
    /\ chan' = offset

encode_upload_buffer(offset) ==
    /\ pc = "ready"
    /\ offset + 1 \in DOMAIN layers
    /\ pc' = "encode"
    /\ EncodeBegin(offset)
    /\ UNCHANGED <<layers, count, stack, ticks, redraws, bufs, decl, konst0, konst, pending,
                   ncombs, nconsts, draw>>

\* The RedrawRequested handler of main.rs starts with encode_upload_buffer(0).
RedrawRequested ==
    /\ pc = "ready"
    /\ redraws < MaxTicks
    /\ pc' = "encode"
    /\ EncodeBegin(0)
    /\ UNCHANGED <<layers, count, stack, ticks, redraws, bufs, decl, konst0, konst, pending,
                   ncombs, nconsts, draw>>

\* The buffers encode_upload_buffer returns, with the encoder's cursors at
\* finish() and the number of animate calls the tree had seen.
Upload(e) ==
    << [instrs |-> e.instrs, consts |-> e.constant_pool,
        instr_offset |-> e.instr_offset, pool_offset |-> e.pool_offset,
        tick |-> ticks] >>

\* One step of the running compile: the child loop of the innermost running
\* push enters the push of its next child, or, its children all encoded, the
\* push writes its constants and its word and returns.  After the root's
\* word, finish() returns the buffers; a write out of range panics.  In the
\* redraw handler (inRedraw) the next channel's compile follows, and the
\* handler ends after channel 2.
PushStep(inRedraw) ==
    /\ pc = "encode"
    /\ LET top == work[Len(work)]
           e == PushOwn(enc[1], top.node)
           rest == SubSeq(work, 1, Len(work) - 1)
       IN  IF top.next <= Len(top.node.children)
           THEN /\ work' = Append([work EXCEPT ![Len(work)].next = top.next + 1],
                                  Frame(NextChild(top)))
                /\ UNCHANGED <<pc, enc, bufs, chan, redraws>>
           ELSE IF ~e.ok
           THEN /\ pc' = "aborted"
                /\ enc' = << e >>
                /\ UNCHANGED <<work, bufs, chan, redraws>>
           ELSE IF rest # << >>
           THEN /\ enc' = << e >>
                /\ work' = rest
                /\ UNCHANGED <<pc, bufs, chan, redraws>>
           ELSE /\ bufs' = [bufs EXCEPT ![chan] = Upload(e)]
                /\ IF inRedraw /\ chan < 2
                   THEN /\ EncodeBegin(chan + 1)
                        /\ UNCHANGED <<pc, redraws>>
                   ELSE /\ enc' = << >>
                        /\ work' = << >>
                        /\ pc' = "ready"
                        /\ redraws' = IF inRedraw THEN redraws + 1 ELSE redraws
                        /\ UNCHANGED chan
    /\ UNCHANGED <<layers, count, stack, ticks, decl, konst0, konst, pending, ncombs, nconsts, draw>>

InitTree ==
    /\ pc = "synth"
    /\ layers = << >>
    /\ count = 0
    /\ stack = << >>
    /\ ticks = 0
    /\ redraws = 0
    /\ bufs = NoBufs
    /\ enc = << >>
    /\ work = << >>
    /\ chan = 0
    /\ decl = NoDecl
    /\ konst0 = NoConst
    /\ konst = NoConst
    /\ pending = 0
    /\ ncombs = 0
    /\ nconsts = 0
    /\ draw = NoDraw

Compile == \E offset \in 0 .. 2 : encode_upload_buffer(offset)

EncodeStep == PushStep(FALSE)

\* The walk draws that select one of the opcodes ops.
DrawsOf(rates, ops) == { f \in WalkDraws(rates) : guided_random_walk(rates, f) \in ops }

(* Spec: one channel; leaves Const, Flower and PolarTheta, combinators       *)
(* Absolute, Spiral, Add and Squircle; trees of at most MaxNodes nodes;      *)
(* animate and compile in any order.                                         *)

SomeLeafDraws == DrawsOf(LEAF_RATES, {1, 3, 6})

SomeOpDraws == DrawsOf(OP_RATES, {8, 18, 10, 19})

NodeNewSome == NodeNew(UDraws, SomeLeafDraws, SomeOpDraws, MaxNodes, 1)

Next == NodeNewSome \/ TreeAnimate \/ Compile \/ EncodeStep

Spec == InitTree /\ [][Next]_vars

(* SpecWide: one channel; every opcode of the two tables; trees of at most   *)
(* MaxWide nodes; compile only.                                              *)

NodeNewAny == NodeNew(UDraws, LeafWalkDraws, OpWalkDraws, MaxWide, 1)

NextWide == NodeNewAny \/ Compile \/ EncodeStep

SpecWide == InitTree /\ [][NextWide]_vars

(* SpecFull: one channel, no limit on the tree; the draws of the fullness    *)
(* test are the highest one, which chooses a combinator whenever one can be  *)
(* chosen, and one that chooses a leaf one node earlier; the walks select    *)
(* Squircle and Flower.                                                      *)

UHighest == { INSTRUCTION_COUNT - 4, INSTRUCTION_COUNT - 1 }

FlowerDraws == DrawsOf(LEAF_RATES, {3})

SquircleDraws == DrawsOf(OP_RATES, {19})

NodeNewGreedy == NodeNew(UHighest, FlowerDraws, SquircleDraws, 4 * INSTRUCTION_COUNT, 1)

NextFull == NodeNewGreedy \/ Compile \/ EncodeStep

SpecFull == InitTree /\ [][NextFull]_vars

(* SpecAnimate: Tree::new builds the three channels (leaves Flower and      *)
(* PolarTheta, combinators Spiral and Squircle, at most MaxWide nodes each), *)
(* then Tree::animate is called any number of times.                         *)

FlowerThetaDraws == DrawsOf(LEAF_RATES, {3, 6})

SpiralSquircleDraws == DrawsOf(OP_RATES, {18, 19})

NodeNewThree == NodeNew(UDraws, FlowerThetaDraws, SpiralSquircleDraws, MaxWide, 3)

NextAnimate == NodeNewThree \/ TreeAnimate

SpecAnimate == InitTree /\ [][NextAnimate]_vars

(* SpecTree: Tree::new builds the three channels (leaf Flower, combinator    *)
(* Spiral, at most MaxWide nodes each); then animate and the compiles of the *)
(* three channels in any order.                                              *)

SpiralDraws == DrawsOf(OP_RATES, {18})

NodeNewChain == NodeNew(UDraws, FlowerDraws, SpiralDraws, MaxWide, 3)

NextTree == NodeNewChain \/ TreeAnimate \/ Compile \/ EncodeStep

SpecTree == InitTree /\ [][NextTree]_vars

(* SpecDispatch: synthesis of one channel of at most MaxWide nodes in which  *)
(* the weighted draw may return any id up to MaxId, an id of the other table *)
(* or of no table included: the two match statements of Node::new whatever   *)
(* the rate tables hold.  The draws of the latest call are recorded.         *)

Match(cnt, k, id) == IF LeafDraw(cnt, k) THEN LeafMatch(id) ELSE OpMatch(id)

NodeNewAnyId ==
    /\ pc = "synth"
    /\ \E k \in UDraws, id \in 0 .. MaxId :
          /\ Construct(Match(Counter, k, id), MaxWide, 1)
          /\ draw' = << [u |-> k, id |-> id] >>

SpecDispatch == InitTree /\ [][NodeNewAnyId]_vars

(* SpecReplay: synthesis of one channel of at most MaxWide nodes (leaves     *)
(* Flower and PolarTheta, combinators Spiral and Squircle) in which the      *)
(* draws of every Node::new call are recorded in order.                      *)

UFew == { 0, 3, INSTRUCTION_COUNT - 1 }

NodeNewReplay ==
    /\ pc = "synth"
    /\ \E k \in UFew :
          \E f \in IF LeafDraw(Counter, k) THEN FlowerThetaDraws ELSE SpiralSquircleDraws :
              /\ Construct(Dispatch(Counter, k, f), MaxWide, 1)
              /\ draw' = Append(draw, [u |-> k, f |-> f])

SpecReplay == InitTree /\ [][NodeNewReplay]_vars

(* SpecCounter: Tree::new builds the three channels (leaves Flower and      *)
(* PolarTheta, combinators Spiral and Squircle, at most MaxWide nodes each); *)
(* the draw u of the latest Node::new call is recorded.                      *)

NodeNewCounted ==
    /\ pc = "synth"
    /\ \E k \in UDraws :
          \E f \in IF LeafDraw(Counter, k) THEN FlowerThetaDraws ELSE SpiralSquircleDraws :
              /\ Construct(Dispatch(Counter, k, f), MaxWide, 3)
              /\ draw' = << [u |-> k] >>

SpecCounter == InitTree /\ [][NodeNewCounted]_vars

(* SpecTables: synthesis of one channel of at most MaxWide nodes with every  *)
(* opcode of the two tables; the draws u and f of the latest Node::new call  *)
(* are recorded.                                                             *)

NodeNewTabled ==
    /\ pc = "synth"
    /\ \E k \in UDraws :
          \E f \in IF LeafDraw(Counter, k) THEN LeafWalkDraws ELSE OpWalkDraws :
              /\ Construct(Dispatch(Counter, k, f), MaxWide, 1)
              /\ draw' = << [u |-> k, f |-> f] >>

SpecTables == InitTree /\ [][NodeNewTabled]_vars

(* SpecWalk: one call of guided_random_walk, as Node::new makes it: on the   *)
(* leaf table or on the combinator table, with a draw f of gen_range(0,      *)
(* total) for the table's total (in hundredths).  The call and its result    *)
(* are recorded.                                                             *)

TableOf(call) == IF call.leaf THEN LEAF_RATES ELSE OP_RATES

TotalOf(call) == IF call.leaf THEN LEAF_RATE_TOTAL ELSE OP_RATE_TOTAL

InitWalk ==
    /\ pc = "ready"
    /\ layers = << >>
    /\ count = 0
    /\ stack = << >>
    /\ ticks = 0
    /\ redraws = 0
    /\ bufs = NoBufs
    /\ enc = << >>
    /\ work = << >>
    /\ chan = 0
    /\ pending = 0
    /\ ncombs = 0
    /\ nconsts = 0
    /\ decl = NoDecl
    /\ konst0 = NoConst
    /\ konst = NoConst
    /\ \E leaf \in BOOLEAN :
          \E f \in 0 .. TotalOf([leaf |-> leaf]) - 1 :
              draw = << [leaf |-> leaf, f |-> f] >>

GuidedWalk ==
    /\ Len(draw) = 1
    /\ draw' = Append(draw, [id |-> guided_random_walk(TableOf(draw[1]), draw[1].f)])
    /\ UNCHANGED <<pc, layers, count, stack, ticks, redraws, bufs, enc, work, chan, decl,
                   konst0, konst, pending, ncombs, nconsts>>

SpecWalk == InitWalk /\ [][GuidedWalk]_vars

(* SpecMain: the program of main.rs.  Tree::new builds the three channels    *)
(* (leaf Flower, combinators Absolute and Add, at most MaxWide nodes each);  *)
(* every RedrawRequested event then compiles channels 0, 1 and 2.            *)

AbsoluteAddDraws == DrawsOf(OP_RATES, {8, 10})

NodeNewMain == NodeNew(UDraws, FlowerDraws, AbsoluteAddDraws, MaxWide, 3)

EncodeStepMain == PushStep(TRUE)

NextMain == NodeNewMain \/ RedrawRequested \/ EncodeStepMain

SpecMain == InitTree /\ [][NextMain]_vars

(* SpecTerm: a run is either the synthesis of one channel in the counting    *)
(* view (every sequence of leaf, one-child and two-child nodes, no limit on  *)
(* the tree), or the synthesis of one channel of at most MaxNodes nodes      *)
(* (leaf Const, combinators Absolute and Add) followed by animate and        *)
(* compile in any order.  A call that is running goes on: Node::new makes    *)
(* its next call, push its next step.                                        *)

InitTerm == InitCount \/ InitTree

ConstDraws == DrawsOf(LEAF_RATES, {1})

NodeNewOfTree ==
    pending = 0 /\ NodeNew(UDraws, ConstDraws, AbsoluteAddDraws, MaxNodes, 1)

AnimateOfTree == layers # << >> /\ TreeAnimate

NextTerm == NodeNewCount \/ NodeNewOfTree \/ AnimateOfTree \/ Compile \/ EncodeStep

SpecTerm ==
    /\ InitTerm
    /\ [][NextTerm]_vars
    /\ WF_vars(NodeNewCount)
    /\ WF_vars(NodeNewOfTree)
    /\ WF_vars(EncodeStep)

(* SpecPool: a run is either the synthesis of one channel in the counting    *)
(* view (every sequence of leaf, one-child and two-child nodes, each with    *)
(* the opcode of most constants), or the synthesis of the fullest trees of   *)
(* SpecFull followed by their compiles.                                      *)

NodeNewOfFull == pending = 0 /\ NodeNewGreedy

NextPool == NodeNewCount \/ NodeNewOfFull \/ Compile \/ EncodeStep

SpecPool == InitTerm /\ [][NextPool]_vars

(* SpecBrim: one channel, no limit on the tree; as SpecFull, but the walk   *)
(* of the root selects Spiral (one child) or Squircle (two children), so     *)
(* that the trees have INSTRUCTION_COUNT - 2 to INSTRUCTION_COUNT + 1 nodes. *)

NodeNewBrim ==
    IF Counter = 0
    THEN NodeNew(UHighest, FlowerDraws, SpiralSquircleDraws, 4 * INSTRUCTION_COUNT, 1)
    ELSE NodeNewGreedy

NextBrim == NodeNewBrim \/ Compile \/ EncodeStep

SpecBrim == InitTree /\ [][NextBrim]_vars

---------------------------------------------------------------------------
(* Reference definitions of the properties *)

\* The nodes of a tree in postorder: the subtrees of the children, first
\* child first, then the node.
RECURSIVE Postorder(_)
RECURSIVE PostorderOfChildren(_, _)

PostorderOfChildren(children, j) ==
    IF j > Len(children) THEN << >>
    ELSE Postorder(children[j]) \o PostorderOfChildren(children, j + 1)

Postorder(node) == PostorderOfChildren(node.children, 1) \o << node >>

\* The nodes of a tree, level by level from the root: the nesting of the
\* evaluation is the height of the tree, one application per level.
RECURSIVE ChildrenOf(_, _)
ChildrenOf(level, j) ==
    IF j > Len(level) THEN << >>
    ELSE level[j].children \o ChildrenOf(level, j + 1)

RECURSIVE LevelsFrom(_, _)
LevelsFrom(level, acc) ==
    IF Len(acc \o level) = Len(acc) THEN acc
    ELSE LevelsFrom(ChildrenOf(level, 1), acc \o level)

Nodes(node) == LevelsFrom(<< node >>, << >>)

NodeCount(node) == Len(Nodes(node))

ConstCount(node) ==
    LET N == Nodes(node)
    IN  Cardinality(UNION {{k} \X (1 .. Len(N[k].consts)) : k \in DOMAIN N})

\* The fields a consumer reads from a word.
OpcodeField(w) == w % 256

ChildField(w) == (w \div 256) % 256

ConstField(w) == (w \div 65536) % 256

HighField(w) == w \div 16777216

\* The channels that exist and the channels whose buffers were returned.
Channels == { ch \in 0 .. 2 : ch + 1 <= Len(layers) }

Compiled == { ch \in Channels : bufs[ch] # << >> }

\* The words written so far, in buffer order.
Emitted(instrs, n) == [i \in 1 .. n |-> instrs[i - 1]]

\* The stack machine: for each word pop ChildField results, push one.  The
\* depth after the words from i on, or -1 if a pop finds too few results.
RECURSIVE Run(_, _, _)
Run(words, i, depth) ==
    IF i > Len(words) THEN depth
    ELSE IF depth < ChildField(words[i]) THEN 0 - 1
    ELSE Run(words, i + 1, depth - ChildField(words[i]) + 1)

\* The pool entries consumed by the words before the i-th.
RECURSIVE Taken(_, _)
Taken(words, i) == IF i <= 1 THEN 0 ELSE Taken(words, i - 1) + ConstField(words[i - 1])

\* What the consumer receives for the i-th word.
Received(b, i) ==
    LET words == Emitted(b.instrs, b.instr_offset)
    IN  [j \in 1 .. ConstField(words[i]) |-> b.consts[Taken(words, i) + j - 1]]

Values(node) == [j \in 1 .. Len(node.consts) |-> node.consts[j].value]

---------------------------------------------------------------------------
(* Properties *)

\* C1: the words a compile has written are, in buffer order, the words of the
\* tree's nodes in postorder (every child subtree, first child first, below
\* the node's own word), while it runs and in the buffers it returns; the
\* last word returned is the root's.
C1_Postorder ==
    /\ \A ch \in Compiled :
          LET b == bufs[ch][1]
              P == Postorder(layers[ch + 1])
          IN  /\ b.instr_offset = Len(P)
              /\ \A i \in 1 .. Len(P) : b.instrs[i - 1] = OpBitsOf(P[i])
              /\ b.instrs[b.instr_offset - 1] = OpBitsOf(layers[ch + 1])
    /\ pc = "encode" =>
          LET P == Postorder(layers[chan + 1])
          IN  /\ enc[1].instr_offset <= Len(P)
              /\ \A i \in 1 .. enc[1].instr_offset : enc[1].instrs[i - 1] = OpBitsOf(P[i])

\* A compiled tree whose root has two children, the first with a child of
\* its own and an opcode other than the second's.
C1_Witness ==
    \E ch \in Compiled :
        LET root == layers[ch + 1]
        IN  /\ Len(root.children) = 2
            /\ Len(root.children[1].children) >= 1
            /\ root.children[1].children[1].op # root.children[2].op

\* C2: the stack machine run over the returned words never pops more results
\* than it holds and ends with exactly one result; no prefix written by a
\* running compile makes it pop more than it holds.
C2_StackDiscipline ==
    /\ \A ch \in Compiled :
          Run(Emitted(bufs[ch][1].instrs, bufs[ch][1].instr_offset), 1, 0) = 1
    /\ pc = "encode" =>
          Run(Emitted(enc[1].instrs, enc[1].instr_offset), 1, 0) >= 0

\* Returned buffers in which a two-child word follows a one-child word.
C2_Witness ==
    \E ch \in Compiled :
        LET b == bufs[ch][1]
        IN  \E i \in 1 .. b.instr_offset - 1, j \in 1 .. b.instr_offset - 1 :
                /\ i < j
                /\ ChildField(b.instrs[i]) = 1
                /\ ChildField(b.instrs[j]) = 2

\* C3: in buffers returned since the last animate, the pool entries the
\* consumer takes for the i-th word are the current values of the constants of
\* the i-th node in postorder, in declaration order; in all returned buffers
\* the pool cursor is the number of constants of the tree.
C3_PoolPairing ==
    \A ch \in Compiled :
        LET b == bufs[ch][1]
            P == Postorder(layers[ch + 1])
        IN  /\ b.pool_offset = ConstCount(layers[ch + 1])
            /\ b.tick = ticks =>
                  \A i \in 1 .. b.instr_offset : Received(b, i) = Values(P[i])

\* Buffers returned after an animate for a tree with constants in two nodes.
C3_Witness ==
    \E ch \in Compiled :
        LET b == bufs[ch][1]
            root == layers[ch + 1]
        IN  /\ b.tick = ticks
            /\ ticks >= 1
            /\ Len(root.consts) >= 2
            /\ Len(root.children) >= 1
            /\ Len(root.children[1].consts) >= 2

\* C4: the returned instruction cursor is the number of nodes of the tree,
\* and every word occurs among the written words as often as there are nodes
\* with that word.
C4_OneWordPerNode ==
    \A ch \in Compiled :
        LET b == bufs[ch][1]
            P == Postorder(layers[ch + 1])
            words == Emitted(b.instrs, b.instr_offset)
        IN  /\ b.instr_offset = NodeCount(layers[ch + 1])
            /\ \A i \in 1 .. Len(P) :
                  Cardinality({ j \in 1 .. Len(words) : words[j] = OpBitsOf(P[i]) })
                      = Cardinality({ j \in 1 .. Len(P) : OpBitsOf(P[j]) = OpBitsOf(P[i]) })

\* Returned buffers of a tree of three nodes or more, two of them leaves.
C4_Witness ==
    \E ch \in Compiled :
        /\ NodeCount(layers[ch + 1]) >= 3
        /\ Len(layers[ch + 1].children) = 2
        /\ Len(layers[ch + 1].children[2].children) = 0

\* C5: every word written, by a running compile or in returned buffers, has
\* the opcode id of its node in bits 0-7, the node's number of children in
\* bits 8-15, its number of constants in bits 16-23 and zero above; the two
\* counts are the ones the catalog declares for the opcode id.
WordLayout(w, node) ==
    /\ OpcodeField(w) = node.op
    /\ ChildField(w) = Len(node.children)
    /\ ConstField(w) = Len(node.consts)
    /\ HighField(w) = 0
    /\ OpcodeField(w) \in OpIds
    /\ ChildField(w) = Catalog[OpcodeField(w)].children
    /\ ConstField(w) = Len(Catalog[OpcodeField(w)].consts)

C5_WordLayout ==
    /\ \A ch \in Compiled :
          LET P == Postorder(layers[ch + 1])
          IN  \A i \in 1 .. bufs[ch][1].instr_offset :
                  i <= Len(P) /\ WordLayout(bufs[ch][1].instrs[i - 1], P[i])
    /\ pc = "encode" =>
          LET P == Postorder(layers[chan + 1])
          IN  \A i \in 1 .. enc[1].instr_offset :
                  i <= Len(P) /\ WordLayout(enc[1].instrs[i - 1], P[i])

\* Returned buffers with a word of an operator that has constants and
\* children, and more of the one than of the other.
C5_Witness ==
    \E ch \in Compiled :
        \E i \in 1 .. bufs[ch][1].instr_offset :
            LET w == bufs[ch][1].instrs[i - 1]
            IN  /\ ChildField(w) > 0
                /\ ConstField(w) > ChildField(w)

\* C6: buffers are returned only for a tree within both capacities; a compile
\* that aborts has stopped at the first write out of range (a cursor at its
\* capacity, every earlier word in place) and has returned nothing for the
\* channel.
TooLarge(node) ==
    NodeCount(node) > INSTRUCTION_COUNT \/ ConstCount(node) > CONSTANT_POOL_SIZE

C6_AbortNoBuffers ==
    /\ \A ch \in Channels : TooLarge(layers[ch + 1]) => bufs[ch] = << >>
    /\ \A ch \in Compiled :
          /\ bufs[ch][1].instr_offset <= INSTRUCTION_COUNT
          /\ bufs[ch][1].pool_offset <= CONSTANT_POOL_SIZE
    /\ pc = "encode" => enc[1].ok
    /\ pc = "encode" /\ TooLarge(layers[chan + 1]) => work # << >>
    /\ pc = "aborted" /\ enc # << >> =>
          /\ ~enc[1].ok
          /\ TooLarge(layers[chan + 1])
          /\ bufs[chan] = << >>
          /\ \/ enc[1].instr_offset = INSTRUCTION_COUNT
             \/ enc[1].pool_offset = CONSTANT_POOL_SIZE
          /\ \A i \in 0 .. INSTRUCTION_COUNT - 1 :
                i < enc[1].instr_offset => enc[1].instrs[i] # 0

\* A compile of a tree of more than INSTRUCTION_COUNT nodes has aborted.
C6_Witness ==
    /\ pc = "aborted"
    /\ enc # << >>
    /\ NodeCount(layers[chan + 1]) > INSTRUCTION_COUNT
    /\ enc[1].instr_offset = INSTRUCTION_COUNT

\* C7 as stated: no channel has more than INSTRUCTION_COUNT nodes or more
\* than CONSTANT_POOL_SIZE constants.
C7_WithinCapacity ==
    /\ count <= INSTRUCTION_COUNT
    /\ nconsts <= CONSTANT_POOL_SIZE

\* C7, amended: no channel has more than 2 * (INSTRUCTION_COUNT / 2) + 1 nodes
\* (one more than INSTRUCTION_COUNT) or more than CONSTANT_POOL_SIZE constants.
C7_NodeBound ==
    /\ count <= 2 * (INSTRUCTION_COUNT \div 2) + 1
    /\ nconsts <= CONSTANT_POOL_SIZE

\* Synthesis of a channel has returned a tree of INSTRUCTION_COUNT + 1 nodes.
C7_Witness ==
    /\ pc = "ready"
    /\ pending = 0
    /\ count = INSTRUCTION_COUNT + 1

\* C8 as stated: while the handler of a redraw compiles, animate has been
\* applied once for that redraw and for every redraw before it, and the
\* buffers a redraw returns hold the values of that many animate calls.
C8_AnimateBeforeCompile ==
    /\ pc = "encode" => ticks = redraws + 1
    /\ \A ch \in Compiled : bufs[ch][1].tick >= 1

\* C9: the Constant's value lies within its limits, which are the ones the
\* catalog declares, after Constant::new and after every animate.
C9_WithinLimits ==
    /\ konst.limits = << decl.min, decl.max >>
    /\ konst.limits[1] <= konst.value
    /\ konst.value <= konst.limits[2]

\* A Repeat Constant with a positive rate that has wrapped to below the value
\* it started with.
C9_Witness ==
    /\ decl.mode = "r"
    /\ konst.rate > 0
    /\ konst.value < konst0.value

\* C10: every Constant of a tree that the catalog declares 'f' has rate 0 and
\* the value Constant::new drew for it, whatever the number of animate calls.
FixedConstants(node) == { j \in 1 .. Len(node.consts) : Catalog[node.op].consts[j].mode = "f" }

C10_FixedUnchanged ==
    \A ch \in Channels :
        LET P == Postorder(layers[ch + 1])
        IN  \A i \in 1 .. Len(P) : \A j \in FixedConstants(P[i]) :
                /\ P[i].consts[j].rate = 0
                /\ P[i].consts[j].value = ValueDraw(Catalog[P[i].op].consts[j], j)

\* A tree with an 'f' Constant has been animated twice.
C10_Witness ==
    /\ ticks >= 2
    /\ \E ch \in Channels :
          LET P == Postorder(layers[ch + 1])
          IN  \E i \in 1 .. Len(P) : FixedConstants(P[i]) # {}

\* The amount by which value + rate exceeds max in the animate call that
\* starts from c (positive: the step overshoots max).
Overshoot(c) == c.value + c.rate - c.limits[2]

C13_AnimateOnce ==
    [][ticks' = ticks + 1 =>
          /\ Len(layers') = Len(layers)
          /\ Len(layers) = 3
          /\ \A i \in 1 .. Len(layers) :
                LET P == Postorder(layers[i])
                    Q == Postorder(layers'[i])
                IN  /\ Len(Q) = Len(P)
                    /\ \A k \in 1 .. Len(P) :
                          /\ Len(Q[k].consts) = Len(P[k].consts)
                          /\ \A j \in 1 .. Len(P[k].consts) :
                                Q[k].consts[j] = ConstantAnimate(P[k].consts[j])]_vars

\* Three channels have been animated, one of them with Constants that move
\* in its root and in both of the root's children.
Moves(node) == \E j \in 1 .. Len(node.consts) : node.consts[j].rate # 0

C13_Witness ==
    /\ ticks >= 1
    /\ Len(layers) = 3
    /\ \E i \in 1 .. 3 :
          /\ Len(layers[i].children) = 2
          /\ Moves(layers[i])
          /\ Moves(layers[i].children[1])
          /\ Moves(layers[i].children[2])

\* What animate must leave alone: the opcode, the limits and the wrap mode of
\* every Constant, and the children, for the node and all nodes below it.
RECURSIVE Shape(_)
Shape(node) ==
    [op |-> node.op,
     consts |-> [j \in DOMAIN node.consts |->
                    [limits |-> node.consts[j].limits, wrap_mode |-> node.consts[j].wrap_mode]],
     children |-> [j \in DOMAIN node.children |-> Shape(node.children[j])]]

\* C14: a Tree::animate call changes no channel's shape (nodes, opcodes,
\* children, limits and wrap modes of the Constants), and the buffers a compile
\* returns for a channel hold the same instruction words and cursor as the
\* buffers returned for it before, whatever the animate calls in between.
C14_StructureFixed ==
    [][/\ ticks' = ticks + 1 =>
             /\ Len(layers') = Len(layers)
             /\ \A i \in 1 .. Len(layers) :
                   /\ Shape(layers'[i]) = Shape(layers[i])
                   /\ NodeCount(layers'[i]) = NodeCount(layers[i])
       /\ \A ch \in 0 .. 2 :
             bufs[ch] # << >> /\ bufs'[ch] # << >> =>
                /\ bufs'[ch][1].instrs = bufs[ch][1].instrs
                /\ bufs'[ch][1].instr_offset = bufs[ch][1].instr_offset]_vars

\* A compile runs on a channel that was compiled before and animated since;
\* it has written all words but the root's, and a first pool entry that
\* differs from the one returned before.
C14_Witness ==
    /\ pc = "encode"
    /\ bufs[chan] # << >>
    /\ bufs[chan][1].tick < ticks
    /\ enc[1].instr_offset + 1 = bufs[chan][1].instr_offset
    /\ enc[1].pool_offset >= 1
    /\ enc[1].constant_pool[0] # bufs[chan][1].consts[0]

\* An encoder as InstructionEncoder::new returns it.
Fresh(e) ==
    /\ e.ok
    /\ e.instr_offset = 0
    /\ e.pool_offset = 0
    /\ \A i \in 0 .. INSTRUCTION_COUNT - 1 : e.instrs[i] = 0
    /\ \A i \in 0 .. CONSTANT_POOL_SIZE - 1 : e.constant_pool[i] = 0

\* C15: no step of a compile changes the tree; a compile starts with a fresh
\* encoder; and the buffers returned for a channel that was compiled before
\* with no animate since are the buffers returned then (instruction words,
\* pool and both cursors), whatever was compiled for other channels meanwhile.
C15_CompileRepeatable ==
    [][/\ pc = "encode" \/ pc' = "encode" => layers' = layers
       /\ pc # "encode" /\ pc' = "encode" => Len(enc') = 1 /\ Fresh(enc'[1])
       /\ \A ch \in 0 .. 2 :
             bufs[ch] # << >> /\ bufs[ch][1].tick = ticks /\ ticks' = ticks =>
                bufs'[ch] = bufs[ch]]_vars

\* After an animate, all three channels have been compiled and a further
\* compile of channel 0 has written all words but the root's.
C15_Witness ==
    /\ pc = "encode"
    /\ chan = 0
    /\ ticks >= 1
    /\ \A ch \in 0 .. 2 : bufs[ch] # << >> /\ bufs[ch][1].tick = ticks
    /\ enc[1].instr_offset + 1 = bufs[0][1].instr_offset
    /\ enc[1].pool_offset >= 1

\* Every slot at or above its cursor is zero.
ZeroAbove(instrs, instr_offset, pool, pool_offset) ==
    /\ \A i \in 0 .. INSTRUCTION_COUNT - 1 : i >= instr_offset => instrs[i] = 0
    /\ \A i \in 0 .. CONSTANT_POOL_SIZE - 1 : i >= pool_offset => pool[i] = 0

\* Below the cursors of e, the arrays instrs and pool hold what e holds.
SameBelow(e, instrs, pool) ==
    /\ \A i \in 0 .. INSTRUCTION_COUNT - 1 : i < e.instr_offset => instrs[i] = e.instrs[i]
    /\ \A i \in 0 .. CONSTANT_POOL_SIZE - 1 : i < e.pool_offset => pool[i] = e.constant_pool[i]

\* C16: in the returned buffers and in a running compile every slot at or
\* above its cursor is zero; a step of a compile writes one more instruction
\* slot, moves no cursor back and leaves every slot below the cursors as it
\* was, so each slot below the final cursors was written once.
C16_TrailingZeros ==
    /\ [](/\ \A ch \in Compiled :
                ZeroAbove(bufs[ch][1].instrs, bufs[ch][1].instr_offset,
                          bufs[ch][1].consts, bufs[ch][1].pool_offset)
          /\ pc = "encode" =>
                ZeroAbove(enc[1].instrs, enc[1].instr_offset,
                          enc[1].constant_pool, enc[1].pool_offset))
    /\ [][pc = "encode" /\ enc' # enc =>
             IF pc' = "encode"
             THEN /\ enc'[1].instr_offset = enc[1].instr_offset + 1
                  /\ enc'[1].pool_offset >= enc[1].pool_offset
                  /\ SameBelow(enc[1], enc'[1].instrs, enc'[1].constant_pool)
             ELSE pc' = "ready" =>
                  /\ bufs'[chan][1].instr_offset = enc[1].instr_offset + 1
                  /\ bufs'[chan][1].pool_offset >= enc[1].pool_offset
                  /\ SameBelow(enc[1], bufs'[chan][1].instrs, bufs'[chan][1].consts)]_vars

\* Returned buffers with three words or more and two constants or more, the
\* last slot below each cursor not zero.
C16_Witness ==
    \E ch \in Compiled :
        LET b == bufs[ch][1]
        IN  /\ b.instr_offset >= 3
            /\ b.pool_offset >= 2
            /\ b.instrs[b.instr_offset - 1] # 0
            /\ b.consts[b.pool_offset - 1] # 0
            /\ b.consts[0] # 0

\* C17: a Node::new call whose weighted draw returns an id without an arm in
\* the match of the table chosen ends in a panic and adds no node to the tree
\* under construction; a call whose draw has an arm does not panic.
HasArm(cnt, d) == IF LeafDraw(cnt, d.u) THEN d.id \in LeafArms ELSE d.id \in OpArms

C17_UnknownIdAborts ==
    [][pc = "synth" =>
          IF HasArm(Counter, draw'[1])
          THEN pc' # "aborted" /\ <<layers', stack'>> # <<layers, stack>>
          ELSE pc' = "aborted" /\ layers' = layers /\ stack' = stack]_vars

\* A call below the root drew, for the leaf table, an id that no catalog
\* entry has, and the program has aborted.
C17_Witness ==
    /\ pc = "aborted"
    /\ stack # << >>
    /\ LeafDraw(count - 1, draw[1].u)
    /\ draw[1].id \notin OpIds

\* The nodes of a tree in preorder, and those of the running calls: each
\* running operator is followed by its finished children, then by the child
\* under construction.
RECURSIVE Preorder(_)
RECURSIVE PreorderOfChildren(_, _)

PreorderOfChildren(children, j) ==
    IF j > Len(children) THEN << >>
    ELSE Preorder(children[j]) \o PreorderOfChildren(children, j + 1)

Preorder(node) == << node >> \o PreorderOfChildren(node.children, 1)

RECURSIVE PreorderOfRunning(_, _)
PreorderOfRunning(stk, j) ==
    IF j > Len(stk) THEN << >>
    ELSE Preorder(stk[j]) \o PreorderOfRunning(stk, j + 1)

Created == PreorderOfRunning(stack, 1) \o PreorderOfChildren(layers, 1)

Running == PreorderOfRunning(stack, 1)

\* C19: a Node::new call made when c nodes of its channel exist (none when
\* the channel starts, all subtrees counted) creates a node with a leaf-table
\* opcode if its draw u = k / INSTRUCTION_COUNT is below 2 * c /
\* INSTRUCTION_COUNT and one with a combinator-table opcode otherwise, and
\* leaves the counter at c + 1; when the channel's root returns the counter is
\* the channel's number of nodes.
C19_CounterAndTable ==
    [][pc = "synth" /\ pc' # "aborted" =>
          LET c == Len(Running)
              returned == Len(layers') = Len(layers) + 1
              made == IF returned
                      THEN Preorder(layers'[Len(layers')])
                      ELSE PreorderOfRunning(stack', 1)
              new == made[Len(made)]
          IN  /\ Len(made) = c + 1
              /\ count' = c + 1
              /\ IF draw'[1].u < 2 * c
                 THEN new.op \in { LEAF_RATES[i].op : i \in DOMAIN LEAF_RATES }
                 ELSE new.op \in { OP_RATES[i].op : i \in DOMAIN OP_RATES }
              /\ returned => count' = NodeCount(layers'[Len(layers')])]_vars

\* The third channel's root has been created after two channels of three
\* nodes each, by a draw below the fullness those channels ended with.
C19_Witness ==
    /\ Len(layers) = 2
    /\ NodeCount(layers[1]) = 3
    /\ NodeCount(layers[2]) = 3
    /\ Len(stack) = 1
    /\ count = 1
    /\ draw[1].u < 6

\* The first entry of rates whose cumulative rate exceeds f (0 if none does).
FirstExceeding(rates, f) ==
    LET over == { n \in 1 .. Len(rates) : SumRates(rates, n) > f }
    IN  IF over = {} THEN 0 ELSE CHOOSE n \in over : \A m \in over : n <= m

\* C20: a guided_random_walk call with a draw f, 0 <= f < R for the total R of
\* its table, returns the opcode id of the first entry whose cumulative rate
\* exceeds f, having read no entry beyond the table.
C20_WalkPicksFirstExceeding ==
    Len(draw) = 2 =>
        LET rates == TableOf(draw[1])
            n == FirstExceeding(rates, draw[1].f)
        IN  /\ 0 <= draw[1].f
            /\ draw[1].f < SumRates(rates, Len(rates))
            /\ draw[2].id # Panicked
            /\ n >= 1
            /\ draw[2].id = rates[n].op

\* A walk of the combinator table has returned for a draw that equals the
\* cumulative rate of the entries before the one it returned, two entries of
\* rate 0 among them.
C20_Witness ==
    /\ Len(draw) = 2
    /\ ~draw[1].leaf
    /\ draw[2].id = 18
    /\ draw[1].f = SumRates(OP_RATES, 10)
    /\ OP_RATES[9].rate = 0
    /\ OP_RATES[10].rate = 0

\* The opcode ids a rate table holds.
TableIds(rates) == { rates[i].op : i \in DOMAIN rates }

\* C21: every id of the leaf table has a match arm that builds a catalog
\* operator of that opcode with no children, and every id of the combinator
\* table one that builds a catalog operator of that opcode with one or two
\* children; so no Node::new call aborts, a call that draws from the leaf
\* table creates the operator its walk returned and makes no further call,
\* and a call that draws from the combinator table creates the operator its
\* walk returned and goes on to its children.
C21_TablesAgree ==
    /\ \A id \in TableIds(LEAF_RATES) :
          /\ id \in LeafArms
          /\ LeafMatch(id) = id
          /\ id \in OpIds
          /\ Catalog[id].children = 0
    /\ \A id \in TableIds(OP_RATES) :
          /\ id \in OpArms
          /\ OpMatch(id) = id
          /\ id \in OpIds
          /\ Catalog[id].children \in {1, 2}
    /\ [][pc = "synth" =>
            LET c == Len(Running)
                returned == Len(layers') = Len(layers) + 1
                made == IF returned
                        THEN Preorder(layers'[Len(layers')])
                        ELSE PreorderOfRunning(stack', 1)
                new == made[Len(made)]
            IN  /\ pc' # "aborted"
                /\ IF draw'[1].u < 2 * c
                   THEN /\ new.op = guided_random_walk(LEAF_RATES, draw'[1].f)
                        /\ new.children = << >>
                        /\ Len(stack') <= Len(stack)
                   ELSE /\ new.op = guided_random_walk(OP_RATES, draw'[1].f)
                        /\ stack' = Append(stack, new)]_vars

\* A channel is complete whose last node was drawn from the leaf table and
\* is the Const leaf, the entry of the smallest rate.
C21_Witness ==
    /\ pc = "ready"
    /\ Len(layers) = 1
    /\ draw # << >>
    /\ draw[1].u < 2 * (count - 1)
    /\ guided_random_walk(LEAF_RATES, draw[1].f) = 1
    /\ layers[1].children[Len(layers[1].children)].op = 1

\* The update step as the specification states it, for a Constant with value
\* v, rate r, bounds min and max: add the rate; below min, Repeat adds the
\* width and Mirror reflects at min and negates the rate; then, above max,
\* Repeat subtracts the width and Mirror reflects at max and negates the rate.
UpdateStep(c) ==
    LET min == c.limits[1]
        max == c.limits[2]
        mirror == c.wrap_mode = "Mirror"
        v1 == c.value + c.rate
        below == v1 < min
        v2 == IF ~below THEN v1 ELSE IF mirror THEN min + (min - v1) ELSE v1 + (max - min)
        r2 == IF below /\ mirror THEN -c.rate ELSE c.rate
        above == v2 > max
        v3 == IF ~above THEN v2 ELSE IF mirror THEN max - (v2 - max) ELSE v2 - (max - min)
        r3 == IF above /\ mirror THEN -r2 ELSE r2
    IN  [limits |-> << min, max >>, value |-> v3, rate |-> r3, wrap_mode |-> c.wrap_mode]

\* C22: every Constant::animate call leaves the Constant as the update step
\* of the specification does, for every declaration of the catalog and
\* every value and rate its Constant takes.
C22_AnimateIsUpdateStep == [][konst' = UpdateStep(konst)]_vars

\* A Mirror Constant created with a negative rate has just been reflected at
\* its lower bound: its rate is positive and it is less than one step above
\* the bound.
C22_Witness ==
    /\ konst.wrap_mode = "Mirror"
    /\ konst0.rate < 0
    /\ konst.rate = -konst0.rate
    /\ konst.value > konst.limits[1]
    /\ konst.value - konst.limits[1] < konst.rate

\* The Node::new calls the running synthesis still owes, the nodes it has
\* made for its channel, and a measure of the synthesis left: the calls owed,
\* and two for every count at which a combinator can still be drawn.
Owed ==
    IF pc # "synth" THEN 0
    ELSE IF pending > 0 THEN pending
    ELSE Outstanding(stack)

Made == IF pc = "synth" /\ pending = 0 THEN Counter ELSE count

Rank ==
    Owed + 2 * (IF Made < INSTRUCTION_COUNT \div 2
                THEN INSTRUCTION_COUNT \div 2 - Made ELSE 0)

\* C23: the synthesis of a channel ends whatever the draws are, every
\* Node::new call bringing it closer to its end (the measure Rank, never
\* negative, decreases with every call); a compile that was started ends;
\* an animate call returns with the tree in place.
C23_Terminates ==
    /\ [](Rank >= 0)
    /\ [][pc = "synth" => Rank' < Rank]_vars
    /\ (pc \in {"synth", "encode"}) ~> (pc \in {"ready", "aborted"})
    /\ [][ticks' # ticks => pc' = "ready" /\ Len(layers') = Len(layers)]_vars

\* The synthesis of a channel has ended after the most calls it can make: 64
\* combinators of two children each and their 65 leaves.
C23_Witness ==
    /\ pc = "ready"
    /\ pending = 0
    /\ ncombs = INSTRUCTION_COUNT \div 2
    /\ count = 2 * ncombs + 1

\* C24 as stated: for the buffers of every compiled channel,
\* instruction_buffer_size() is the byte size of the instruction array,
\* INSTRUCTION_COUNT * 4, and pool_buffer_size() is that of the constant
\* pool, CONSTANT_POOL_SIZE * 4, so that a copy of that many bytes stays
\* within the upload buffers.
C24_SizesAgree ==
    \A ch \in Compiled :
        /\ InstrUploadBytes(bufs[ch][1]) = INSTRUCTION_COUNT * 4
        /\ instruction_buffer_size = InstrUploadBytes(bufs[ch][1])
        /\ PoolUploadBytes(bufs[ch][1]) = CONSTANT_POOL_SIZE * 4
        /\ pool_buffer_size = PoolUploadBytes(bufs[ch][1])

\* C25: a Node::new call made when the channel's counter is at least
\* INSTRUCTION_COUNT / 2 creates a leaf, whatever its draws; so a channel
\* never has more than INSTRUCTION_COUNT / 2 nodes with children nor more
\* than 2 * (INSTRUCTION_COUNT / 2) + 1 nodes.
C25_LeavesFromHalf ==
    /\ [](ncombs <= INSTRUCTION_COUNT \div 2)
    /\ [](count <= 2 * (INSTRUCTION_COUNT \div 2) + 1)
    /\ [][pc = "synth" /\ count >= INSTRUCTION_COUNT \div 2 =>
            /\ pc' # "aborted"
            /\ ncombs' = ncombs
            /\ pending' = pending - 1]_vars

\* Leaves are being created past the half: 64 combinators were drawn at the
\* counts below it, 100 nodes exist and calls are still owed.
C25_Witness ==
    /\ pc = "synth"
    /\ ncombs = INSTRUCTION_COUNT \div 2
    /\ count = 100
    /\ pending > 0

\* C26: the root of every channel, returned or under synthesis, is an
\* operator of the combinator table with one or two children, so a channel
\* has at least two nodes; and the last word of every compiled channel is
\* its root's, with a child count of 1 or 2.
C26_RootIsCombinator ==
    /\ \A i \in 1 .. Len(layers) :
          /\ layers[i].op \in TableIds(OP_RATES)
          /\ Len(layers[i].children) \in {1, 2}
          /\ NodeCount(layers[i]) >= 2
    /\ stack # << >> =>
          /\ stack[1].op \in TableIds(OP_RATES)
          /\ Catalog[stack[1].op].children \in {1, 2}
    /\ \A ch \in Compiled :
          LET b == bufs[ch][1]
              last == b.instrs[b.instr_offset - 1]
          IN  /\ b.instr_offset >= 2
              /\ OpcodeField(last) = layers[ch + 1].op
              /\ ChildField(last) \in {1, 2}

\* A redraw has compiled the three channels, one with a root of one child
\* and one with a root of two.
C26_Witness ==
    /\ pc = "ready"
    /\ redraws >= 1
    /\ Compiled = {0, 1, 2}
    /\ Len(layers[1].children) = 1
    /\ Len(layers[2].children) = 2

\* C27: no catalog operator with children has more than 4 constants and none
\* without has more than 7; a channel has at most INSTRUCTION_COUNT / 2
\* nodes with children, so its constants number at most 4 per such node and
\* 7 per leaf, fewer than CONSTANT_POOL_SIZE in all; a compile never finds
\* the pool full (one that aborts has filled the instruction buffer), and
\* the buffers returned hold every constant of the tree.
C27_PoolNeverOverflows ==
    /\ \A op \in OpIds :
          Len(Catalog[op].consts) <= IF Catalog[op].children > 0 THEN 4 ELSE 7
    /\ ncombs <= INSTRUCTION_COUNT \div 2
    /\ nconsts <= 4 * ncombs + 7 * (count - ncombs)
    /\ nconsts <= 4 * (INSTRUCTION_COUNT \div 2) + 7 * (INSTRUCTION_COUNT \div 2 + 1)
    /\ 4 * (INSTRUCTION_COUNT \div 2) + 7 * (INSTRUCTION_COUNT \div 2 + 1) < CONSTANT_POOL_SIZE
    /\ enc # << >> =>
          /\ enc[1].pool_offset < CONSTANT_POOL_SIZE
          /\ ~enc[1].ok => enc[1].instr_offset = INSTRUCTION_COUNT
    /\ \A ch \in Compiled :
          /\ bufs[ch][1].pool_offset = ConstCount(layers[ch + 1])
          /\ bufs[ch][1].pool_offset < CONSTANT_POOL_SIZE

\* The buffers of a tree of INSTRUCTION_COUNT - 1 nodes were returned: 63
\* Squircle nodes of 4 constants and 64 Flower leaves of 7.
C27_Witness ==
    /\ bufs[0] # << >>
    /\ bufs[0][1].instr_offset = INSTRUCTION_COUNT - 1
    /\ bufs[0][1].pool_offset = 4 * 63 + 7 * 64

\* The opcode ids a rate table holds with rate 0, and with a positive rate.
ZeroRated(rates) == { rates[i].op : i \in { j \in DOMAIN rates : rates[j].rate = 0 } }

PositiveRated(rates) == { rates[i].op : i \in { j \in DOMAIN rates : rates[j].rate > 0 } }

\* The opcode ids guided_random_walk returns for the draws 0 <= f < total
\* (in hundredths).
Returned(rates) ==
    { guided_random_walk(rates, f) : f \in 0 .. SumRates(rates, Len(rates)) - 1 }

ReturnedOfLeaves == Returned(LEAF_RATES)

ReturnedOfOps == Returned(OP_RATES)

\* C28: the opcodes of rate 0 are sinc (16) and sine (17); over all draws
\* guided_random_walk returns exactly the opcodes of positive rate of its
\* table, and no node of a synthesized tree, complete or under synthesis,
\* is a sinc or a sine.
C28_ZeroRateNeverDrawn ==
    /\ ZeroRated(OP_RATES) = {16, 17}
    /\ ZeroRated(LEAF_RATES) = {}
    /\ ReturnedOfOps = PositiveRated(OP_RATES)
    /\ ReturnedOfLeaves = PositiveRated(LEAF_RATES)
    /\ \A k \in 1 .. Len(Created) : Created[k].op \notin ZeroRated(OP_RATES)

\* A Spiral has just been created by the draw that equals the cumulative
\* rate of the eight entries before sinc: the walk passed sinc and sine.
C28_Witness ==
    /\ pc = "synth"
    /\ stack # << >>
    /\ stack[Len(stack)].op = 18
    /\ stack[Len(stack)].children = << >>
    /\ draw # << >>
    /\ draw[1].u >= 2 * (count - 1)
    /\ draw[1].f = SumRates(OP_RATES, 8)

\* The words a consumer executes that treats opcode 0 as a no-op.
IsOperation(w) == OpcodeField(w) # 0

Executed(instrs) == SelectSeq(Emitted(instrs, INSTRUCTION_COUNT), IsOperation)

\* The index of the first zero word of a buffer, INSTRUCTION_COUNT if it
\* has none.
FirstZero(instrs) ==
    LET zeros == { i \in DOMAIN instrs : instrs[i] = 0 }
    IN  IF zeros = {} THEN INSTRUCTION_COUNT
        ELSE CHOOSE i \in zeros : \A j \in zeros : i <= j

\* The words of a buffer below the cursor n are operations of the catalog
\* and the words from n on are zero.
EmittedThenZero(instrs, n) ==
    /\ n <= INSTRUCTION_COUNT
    /\ \A i \in DOMAIN instrs :
          IF i < n
          THEN instrs[i] # 0 /\ OpcodeField(instrs[i]) \in OpIds
          ELSE instrs[i] = 0
    /\ FirstZero(instrs) = n
    /\ Executed(instrs) = Emitted(instrs, n)

\* C29 as stated: every compiled instruction buffer has a zero word, the
\* first one at the index equal to the node count of its tree.
C29_FirstZeroAtNodeCount ==
    \A ch \in Compiled :
        LET n == NodeCount(layers[ch + 1])
        IN  /\ n \in DOMAIN bufs[ch][1].instrs
            /\ bufs[ch][1].instrs[n] = 0
            /\ \A i \in DOMAIN bufs[ch][1].instrs : i < n => bufs[ch][1].instrs[i] # 0

\* C29, amended: the word of every operator of the catalog is non-zero and
\* has the operator's id, one of 1..19, as its opcode field.  While a tree
\* is encoded and in a compiled buffer, the words below the cursor (the
\* node count, for a compiled buffer) are such words and the later ones are
\* zero: the first zero word, if there is one, is at the node count, and a
\* consumer that skips opcode 0 executes exactly the emitted words.  A tree
\* of exactly INSTRUCTION_COUNT nodes leaves no zero word.
C29_EmittedWordsNonZero ==
    /\ OpIds \subseteq 1 .. 19
    /\ \A op \in OpIds :
          LET w == OpBits(op, Len(Catalog[op].consts), Catalog[op].children)
          IN  w # 0 /\ OpcodeField(w) = op
    /\ enc # << >> => EmittedThenZero(enc[1].instrs, enc[1].instr_offset)
    /\ \A ch \in Compiled :
          /\ bufs[ch][1].instr_offset = NodeCount(layers[ch + 1])
          /\ EmittedThenZero(bufs[ch][1].instrs, NodeCount(layers[ch + 1]))

\* The buffers of a tree of exactly INSTRUCTION_COUNT nodes were returned:
\* the last slot holds the word of the root, a Spiral.
C29_Witness ==
    /\ bufs[0] # << >>
    /\ NodeCount(layers[1]) = INSTRUCTION_COUNT
    /\ OpcodeField(bufs[0][1].instrs[INSTRUCTION_COUNT - 1]) = 18

=============================================================================
